---- MODULE Spec2Model ----
(***************************************************************************)
(* SimpleOCR: the hybrid field-extraction core.                            *)
(*                                                                         *)
(* AIReceiptParser.extract_fields (src/src/ai_receipt_parser.py) asks a    *)
(* text-generation client for the seven receipt fields, gates the answer   *)
(* on its confidence, and falls back to the regex extractor.  The model    *)
(* keeps Python's values: an Optional is None or Some(v), a dict is a      *)
(* function over its keys, an exception is the name of its class.          *)
(* Confidences are in thousandths (0.6 is 600), amounts in cents.          *)
(* A text is the sequence of its lines (text.split('\n')).                 *)
(***************************************************************************)
EXTENDS Integers, Sequences, FiniteSets, TLC

VARIABLES
    vllm_client,    \* self.vllm_client is set (TRUE) or None (FALSE)
    use_fallback,   \* self.use_fallback
    pc,             \* "idle" | "returned" | "raised": where the current call stands
    text,           \* the call's text argument
    email_data,     \* the call's email_data argument
    response,       \* what the client's generate does on this call
    result,         \* the dict extract_fields returns
    ai_result,      \* the local ai_result (None when never assigned)
    regex_result,   \* the local regex_result (None when never assigned)
    ai_called,      \* _extract_with_ai was invoked in this call
    regex_called,   \* _extract_with_regex was invoked in this call
    exception,      \* the exception class that escaped the call ("" when none)
    max_retries,    \* VLLMClient.max_retries
    ai_min_confidence,  \* config.AI_MIN_CONFIDENCE, in thousandths
    session,        \* VLLMClient._session: "none" | "open" | "closed"
    calls,          \* per caller, where its generate call stands
    earlier,        \* an earlier _extract_with_regex call on this parser
    mpc,            \* where main stands: "start" | "loop" | "done"
    probe,          \* what the health endpoint did when check_health asked
    healthy,        \* what check_health did: "unasked" | "true" | "false" | "raised"
    ai_parser,      \* main's ai_parser is not None
    remaining,      \* the emails main has still to process
    receipts_data,  \* main's receipts_data list
    receipt_data    \* main's receipt_data for the email just processed

vars == <<vllm_client, use_fallback, pc, text, email_data, response, result,
          ai_result, regex_result, ai_called, regex_called, exception,
          max_retries, ai_min_confidence, session, calls, earlier,
          mpc, probe, healthy, ai_parser, remaining, receipts_data,
          receipt_data>>

\* the client and the configuration, which a call of extract_fields taken
\* as one step leaves alone
\* the main pipeline and the remembered call, which the parser and the
\* client leave alone
mvars == <<earlier, mpc, probe, healthy, ai_parser, remaining, receipts_data,
           receipt_data>>

cvars == <<max_retries, ai_min_confidence, session, calls, mvars>>

(***************************************************************************)
(* Bounds of the model.                                                    *)
(***************************************************************************)
MaxLines == 2
MaxModelFields == 2
MaxAttempts == 4    \* cap of the attempt counter of one generate call
MaxEmails == 2      \* the emails one run of main finds at most

(***************************************************************************)
(* Python values.                                                          *)
(***************************************************************************)
None == <<>>
Some(v) == <<v>>

\* Python truthiness of an Optional[str]: None and "" are falsy.
TruthyStr(o) == o # None /\ o[1] # ""

Min(S) == CHOOSE x \in S : \A y \in S : x <= y
Max(S) == CHOOSE x \in S : \A y \in S : x >= y

\* A JSON value the model may put in a field: null, a string or a number.
JNull == [t |-> "null", s |-> "", n |-> 0]
JStr(s) == [t |-> "str", s |-> s, n |-> 0]
JNum(n) == [t |-> "num", s |-> "", n |-> n]

FieldKeys ==
    <<"event_date", "submission_date", "claim_amount", "invoice_number",
      "policy_number", "vendor", "tax">>
KeySet == {FieldKeys[i] : i \in 1..Len(FieldKeys)}

(***************************************************************************)
(* String primitives, as tables over the strings the model uses.           *)
(***************************************************************************)
\* str.strip()
Strip(s) ==
    CASE s = "   " -> ""
      [] s = " Acme Corp " -> "Acme Corp"
      [] s = " Acme Dental" -> "Acme Dental"
      [] s = " " -> ""
      [] OTHER -> s

\* A line of 116 characters that no pattern matches
LongLine ==
    "Thank you for choosing our clinic; please contact the front desk with any question about this statement of services."

\* len(s) for the strings whose length the code tests
StrLen(s) ==
    CASE s = "" -> 0
      [] s = LongLine -> 116
      [] OTHER -> 20

\* dateparser.parse(s).strftime('%Y-%m-%d'); None when the string is no date
parse_date(s) ==
    CASE s = "01/15/2024" -> Some("2024-01-15")
      [] s = "01/20/2024" -> Some("2024-01-20")
      [] s = "2024-01-10" -> Some("2024-01-10")
      [] s = "2024-01-12" -> Some("2024-01-12")
      [] s = "Tue, 20 Feb 2024 10:30:00 +0000" -> Some("2024-02-20")
      [] OTHER -> None

\* float(s): Some(cents), or None when float raises ValueError
FloatOfStr(s) ==
    CASE s = "120.00" -> Some(12000)
      [] s = "2.00" -> Some(200)
      [] s = "8.00" -> Some(800)
      [] s = "150.00" -> Some(15000)
      [] s = "01" -> Some(100)
      [] s = "15" -> Some(1500)
      [] s = "202" -> Some(20200)
      [] s = "4" -> Some(400)
      [] OTHER -> None

\* str(x) of a JSON number, for the numbers the model uses
StrOfNum(n) ==
    CASE n = 15000 -> "150.0"
      [] n = 350 -> "3.5"
      [] OTHER -> "0.0"

\* str(value) of a JSON string or number
StrOf(j) == IF j.t = "str" THEN j.s ELSE StrOfNum(j.n)

\* Python truthiness of a JSON value: null, "" and 0 are falsy
TruthyJ(j) ==
    CASE j.t = "null" -> FALSE
      [] j.t = "str" -> j.s # ""
      [] OTHER -> j.n # 0

(***************************************************************************)
(* _validate_extracted_data: the model's decoded dict, cleaned.            *)
(***************************************************************************)
\* lines 312-318: a truthy value other than "null" goes through _parse_date
ValidateDate(j) ==
    IF TruthyJ(j) /\ ~(j.t = "str" /\ j.s = "null")
    THEN parse_date(StrOf(j))
    ELSE None

\* lines 321-329: float(value), None on ValueError
ValidateAmount(j) ==
    IF j.t # "null" /\ ~(j.t = "str" /\ j.s = "null")
    THEN IF j.t = "num" THEN Some(j.n) ELSE FloatOfStr(j.s)
    ELSE None

\* lines 332-337: str(value).strip()[:200]
ValidateString(j) ==
    IF TruthyJ(j) /\ ~(j.t = "str" /\ j.s = "null")
    THEN Some(Strip(StrOf(j)))
    ELSE None

validate_extracted_data(data) ==
    [k \in KeySet |->
        CASE k \in {"event_date", "submission_date"} -> ValidateDate(data[k])
          [] k \in {"claim_amount", "tax"} -> ValidateAmount(data[k])
          [] OTHER -> ValidateString(data[k])]

(***************************************************************************)
(* The regex tables, line by line.  Each operator gives what the pattern   *)
(* with that index captures in one line of the model's vocabulary.         *)
(***************************************************************************)
\* date_patterns[p].search(line).group(0)
DateMatch(p, line) ==
    IF p = 1 /\ line = "DOS: 01/15/2024" THEN Some("01/15/2024")
    ELSE IF p = 1 /\ line = "Printed: 01/20/2024" THEN Some("01/20/2024")
    ELSE IF p = 1 /\ line = "Ref 99/99/9999" THEN Some("99/99/9999")
    ELSE None

\* event_date_patterns[p].search(line).group(1), lines 152-158
EventDateMatch(p, line) ==
    IF p = 3 /\ line = "DOS: 01/15/2024" THEN Some("01/15/2024") ELSE None

\* amount_patterns[p].finditer(line): the captured groups, in order
AmountMatches(p, line) ==
    CASE line = "Total: $120.00" /\ p \in {1, 3} -> <<"120.00">>
      [] line = "Tax: $2.00" /\ p = 3 -> <<"2.00">>
      [] line = "Paid $150.00" /\ p = 3 -> <<"150.00">>
      [] OTHER -> <<>>

\* invoice_patterns[p].search(line).group(1)
InvoiceMatch(p, line) ==
    IF p = 1 /\ line = "Invoice #: B-22" THEN Some("B-22") ELSE None

\* policy_patterns[p].search(line).group(1)
PolicyMatch(p, line) ==
    IF p = 1 /\ line = "Policy: POL-9" THEN Some("POL-9") ELSE None

\* tax_patterns[p].search(line).group(1)
TaxMatch(p, line) ==
    IF p = 1 /\ line = "Tax: $2.00" THEN Some("2.00") ELSE None

NumDatePatterns == 3
NumAmountPatterns == 3
NumInvoicePatterns == 6
NumPolicyPatterns == 6
NumTaxPatterns == 3
NumEventDatePatterns == 5

\* the first element of a sequence of Optionals that is not None
FirstHit(opts) ==
    LET hits == {i \in 1..Len(opts) : opts[i] # None}
    IN  IF hits = {} THEN None ELSE opts[Min(hits)]

\* re.search(date_patterns[p], text): the leftmost match is in the first
\* line that matches
SearchDate(p, t) == FirstHit([i \in 1..Len(t) |-> DateMatch(p, t[i])])
SearchInvoice(p, t) == FirstHit([i \in 1..Len(t) |-> InvoiceMatch(p, t[i])])
SearchPolicy(p, t) == FirstHit([i \in 1..Len(t) |-> PolicyMatch(p, t[i])])
SearchTax(p, t) == FirstHit([i \in 1..Len(t) |-> TaxMatch(p, t[i])])
SearchEventDate(p, t) == FirstHit([i \in 1..Len(t) |-> EventDateMatch(p, t[i])])

(***************************************************************************)
(* The pattern extractor.                                                  *)
(***************************************************************************)
\* email_data.get(key), falsy when email_data is None or empty
EmailGet(e, key) == IF e.given THEN e[key] ELSE None

extract_date_regex(t, e) ==
    LET parsed == FirstHit([p \in 1..NumDatePatterns |->
                      IF SearchDate(p, t) = None THEN None
                      ELSE parse_date(SearchDate(p, t)[1])])
    IN  IF parsed # None
        THEN parsed
        ELSE IF TruthyStr(EmailGet(e, "date"))
             THEN parse_date(EmailGet(e, "date")[1])
             ELSE None

RECURSIVE ParsedAmounts(_)
ParsedAmounts(strs) ==
    IF strs = <<>> THEN {}
    ELSE (IF FloatOfStr(Head(strs)) = None THEN {} ELSE {FloatOfStr(Head(strs))[1]})
         \cup ParsedAmounts(Tail(strs))

\* mutant: the first match of the first matching pattern, not the maximum
extract_amount_regex_First(t) ==
    LET hits == {<<p, i>> \in (1..NumAmountPatterns) \X (1..Len(t)) :
                    ParsedAmounts(AmountMatches(p, t[i])) # {}}
        first == CHOOSE h \in hits : \A g \in hits :
                    h[1] < g[1] \/ (h[1] = g[1] /\ h[2] <= g[2])
    IN  IF hits = {} THEN None
        ELSE FloatOfStr(AmountMatches(first[1], t[first[2]])[1])

\* _extract_amount_regex, lines 373-385
extract_amount_regex(t) ==
    LET amounts == UNION {ParsedAmounts(AmountMatches(p, t[i])) :
                            p \in 1..NumAmountPatterns, i \in 1..Len(t)}
    IN  IF amounts = {} THEN None ELSE Some(Max(amounts))

extract_invoice_regex(t) ==
    FirstHit([p \in 1..NumInvoicePatterns |-> SearchInvoice(p, t)])

extract_policy_regex(t) ==
    FirstHit([p \in 1..NumPolicyPatterns |-> SearchPolicy(p, t)])

\* re.sub(r'^Re:|^Fwd:|^FW:', '', subject, flags=re.IGNORECASE)
StripReplyPrefix(s) ==
    CASE s = "Re: Acme Dental" -> " Acme Dental"
      [] s = "Re:" -> ""
      [] OTHER -> s

\* re.match(r'^(.+?)\s*<', from_field).group(1)
FromDisplayName(s) ==
    CASE s = "Acme Billing <billing@acme.test>" -> Some("Acme Billing")
      [] s = " <billing@acme.test>" -> Some(" ")
      [] OTHER -> None

extract_vendor_regex(t, e) ==
    LET subject == IF TruthyStr(EmailGet(e, "subject"))
                   THEN Strip(StripReplyPrefix(EmailGet(e, "subject")[1]))
                   ELSE ""
        from == IF TruthyStr(EmailGet(e, "from"))
                THEN FromDisplayName(EmailGet(e, "from")[1])
                ELSE None
        cand == {i \in 1..Len(t) :
                    i <= 5 /\ Strip(t[i]) # "" /\ StrLen(Strip(t[i])) < 100}
    IN  IF subject # "" /\ StrLen(subject) < 100 THEN Some(subject)
        ELSE IF from # None THEN Some(Strip(from[1]))
        ELSE IF cand # {} THEN Some(Strip(t[Min(cand)]))
        ELSE None

extract_tax_regex(t) ==
    FirstHit([p \in 1..NumTaxPatterns |->
                IF SearchTax(p, t) = None THEN None
                ELSE FloatOfStr(SearchTax(p, t)[1])])

PatternConfidence == 600

\* mutant: submission_date is not filled from event_date
extract_with_regex_NoCopy(t, e) ==
    [event_date |-> extract_date_regex(t, e),
     submission_date |-> None,
     claim_amount |-> extract_amount_regex(t),
     invoice_number |-> extract_invoice_regex(t),
     policy_number |-> extract_policy_regex(t),
     vendor |-> extract_vendor_regex(t, e),
     tax |-> extract_tax_regex(t),
     confidence |-> PatternConfidence]

\* mutant: a call uses up the amount and tax patterns, so that a later
\* call on the same parser finds neither
extract_with_regex_Exhausted(t, e) ==
    LET event == extract_date_regex(t, e)
    IN  [event_date |-> event,
         submission_date |-> IF TruthyStr(event) THEN event ELSE None,
         claim_amount |-> IF earlier = None THEN extract_amount_regex(t) ELSE None,
         invoice_number |-> extract_invoice_regex(t),
         policy_number |-> extract_policy_regex(t),
         vendor |-> extract_vendor_regex(t, e),
         tax |-> IF earlier = None THEN extract_tax_regex(t) ELSE None,
         confidence |-> PatternConfidence]

\* _extract_with_regex, lines 282-297
extract_with_regex(t, e) ==
    LET event == extract_date_regex(t, e)
    IN  [event_date |-> event,
         submission_date |-> IF TruthyStr(event) THEN event ELSE None,
         claim_amount |-> extract_amount_regex(t),
         invoice_number |-> extract_invoice_regex(t),
         policy_number |-> extract_policy_regex(t),
         vendor |-> extract_vendor_regex(t, e),
         tax |-> extract_tax_regex(t),
         confidence |-> PatternConfidence]

(***************************************************************************)
(* The inference client, as extract_fields sees it: generate returns a     *)
(* response or raises, and extract_json_from_response decodes its text.    *)
(***************************************************************************)
\* VLLMConnectionError and VLLMTimeoutError derive from VLLMClientError
IsVLLMClientError(exc) ==
    exc \in {"VLLMClientError", "VLLMConnectionError", "VLLMTimeoutError"}

\* extract_json_from_response: the first brace-delimited match that parses,
\* else json.loads of the whole text, else None.  The value is tagged with
\* its Python type; truthy is bool(value).
extract_json_from_response(txt) ==
    CASE txt.kind = "object" -> [type |-> "dict", data |-> txt.data, truthy |-> TRUE]
      [] txt.kind = "empty_object" -> [type |-> "dict", data |-> txt.data, truthy |-> FALSE]
      [] txt.kind = "array" -> [type |-> "list", data |-> txt.data, truthy |-> TRUE]
      [] OTHER -> [type |-> "None", data |-> txt.data, truthy |-> FALSE]

\* _extract_with_ai, lines 240-269: exc is the exception it raises ("" when
\* it returns), value the cleaned dict with the response's confidence.
extract_with_ai(client, resp) ==
    LET decoded == extract_json_from_response(resp.text)
        cleaned == validate_extracted_data(decoded.data)
        value == [k \in KeySet \cup {"confidence"} |->
                     IF k = "confidence" THEN resp.confidence ELSE cleaned[k]]
        nothing == [k \in KeySet \cup {"confidence"} |->
                     IF k = "confidence" THEN 0 ELSE None]
    IN  IF ~client THEN [exc |-> "VLLMClientError", value |-> nothing]
        ELSE IF resp.exc # "" THEN [exc |-> resp.exc, value |-> nothing]
        ELSE IF ~decoded.truthy THEN [exc |-> "VLLMClientError", value |-> nothing]
        ELSE IF decoded.type # "dict" THEN [exc |-> "AttributeError", value |-> nothing]
        ELSE [exc |-> "", value |-> value]

(***************************************************************************)
(* extract_fields.                                                         *)
(***************************************************************************)
\* lines 175-186
EmptyResult ==
    [k \in KeySet \cup {"extraction_method", "confidence"} |->
        CASE k = "extraction_method" -> "none"
          [] k = "confidence" -> 0
          [] OTHER -> None]

\* mutant: the whitespace test dropped, only "not text" left
IsBlank_EmptyOnly(t) == t = <<"">>

\* line 188: not text or not text.strip()
IsBlank(t) == \A i \in 1..Len(t) : Strip(t[i]) = ""

AcceptThreshold == 500

\* mutant: the gate set at 0.8
AcceptAI_High(ai) == ai["confidence"] > 800

\* line 195: ai_result and ai_result.get('confidence', 0) > 0.5
AcceptAI(ai) == ai["confidence"] > AcceptThreshold

\* mutant: the fields and the confidence are adopted, the tag is not set
AdoptAI_NoTag(res, ai) ==
    [k \in DOMAIN res |->
        CASE k = "extraction_method" -> res[k]
          [] k = "confidence" -> ai["confidence"]
          [] OTHER -> IF ai[k] # None THEN ai[k] ELSE res[k]]

\* lines 197-203: the model's non-None fields, the tag and the confidence
AdoptAI(res, ai) ==
    [k \in DOMAIN res |->
        CASE k = "extraction_method" -> "ai"
          [] k = "confidence" -> ai["confidence"]
          [] OTHER -> IF ai[k] # None THEN ai[k] ELSE res[k]]

AnchorFields == {"claim_amount", "invoice_number", "vendor", "event_date"}

\* mutant: only the amount counts as meaningful
has_meaningful_data_AmountOnly(data) == data["claim_amount"] # None

\* mutant: the vendor does not count as meaningful
has_meaningful_data_NoVendor(data) ==
    \E f \in AnchorFields \ {"vendor"} : data[f] # None

\* _has_meaningful_data, lines 351-354
has_meaningful_data(data) == \E f \in AnchorFields : data[f] # None

\* mutant: the regex value wins wherever there is one
MergeRegex_Overwrite(res, rx) ==
    [k \in DOMAIN res |->
        IF k \in KeySet /\ rx[k] # None THEN rx[k] ELSE res[k]]

\* lines 216-219: regex values only where the result has none
MergeRegex(res, rx) ==
    [k \in DOMAIN res |->
        IF k \in KeySet /\ res[k] = None /\ rx[k] # None THEN rx[k] ELSE res[k]]

\* mutant: every fallback result is tagged hybrid
FinalizeMethod_AlwaysHybrid(res, rx) ==
    [res EXCEPT !["extraction_method"] = "hybrid",
                !["confidence"] = (res["confidence"] + rx["confidence"]) \div 2]

\* mutant: the tag stays 'ai' when the pattern extractor found nothing
FinalizeMethod_KeepModel(res, rx) ==
    IF res["extraction_method"] = "none"
    THEN [res EXCEPT !["extraction_method"] = "regex",
                     !["confidence"] = rx["confidence"]]
    ELSE IF \A k \in KeySet : rx[k] = None
    THEN res
    ELSE [res EXCEPT !["extraction_method"] = "hybrid",
                     !["confidence"] = (res["confidence"] + rx["confidence"]) \div 2]

\* mutant: a hybrid result keeps the model's confidence
FinalizeMethod_NoMean(res, rx) ==
    IF res["extraction_method"] = "none"
    THEN [res EXCEPT !["extraction_method"] = "regex",
                     !["confidence"] = rx["confidence"]]
    ELSE [res EXCEPT !["extraction_method"] = "hybrid"]

\* mutant: a hybrid result adds the two confidences
FinalizeMethod_Sum(res, rx) ==
    IF res["extraction_method"] = "none"
    THEN [res EXCEPT !["extraction_method"] = "regex",
                     !["confidence"] = rx["confidence"]]
    ELSE [res EXCEPT !["extraction_method"] = "hybrid",
                     !["confidence"] = res["confidence"] + rx["confidence"]]

\* lines 221-226
FinalizeMethod(res, rx) ==
    IF res["extraction_method"] = "none"
    THEN [res EXCEPT !["extraction_method"] = "regex",
                     !["confidence"] = rx["confidence"]]
    ELSE [res EXCEPT !["extraction_method"] = "hybrid",
                     !["confidence"] = (res["confidence"] + rx["confidence"]) \div 2]

\* lines 192-209: the model attempt.  done: the call ends here, with res
\* returned or exc raised.
AIStage(client, resp) ==
    LET a == extract_with_ai(client, resp)
        quiet == [res |-> EmptyResult, exc |-> "", ai |-> None,
                  done |-> FALSE, called |-> TRUE]
    IN  IF ~client THEN [quiet EXCEPT !.called = FALSE]
        ELSE IF a.exc # ""
        THEN IF IsVLLMClientError(a.exc) THEN quiet
             ELSE [quiet EXCEPT !.exc = a.exc, !.done = TRUE]
        ELSE IF AcceptAI(a.value)
        THEN [quiet EXCEPT !.res = AdoptAI(EmptyResult, a.value),
                           !.ai = Some(a.value),
                           !.done = has_meaningful_data(AdoptAI(EmptyResult, a.value))]
        ELSE [quiet EXCEPT !.ai = Some(a.value)]

\* lines 212-228: the pattern fallback; rx is what _extract_with_regex(text,
\* email_data) returns, used only when the fallback runs
FallbackStage(fallback, res, rx) ==
    IF fallback
    THEN [res |-> FinalizeMethod(MergeRegex(res, rx), rx),
          rx |-> Some(rx), called |-> TRUE]
    ELSE [res |-> res, rx |-> None, called |-> FALSE]

\* extract_fields, lines 164-228: everything one call does; rx is what
\* _extract_with_regex(text, email_data) returns if the call reaches line 213
extract_fields(client, fallback, t, rx, resp) ==
    LET stage == AIStage(client, resp)
        fb == FallbackStage(fallback, stage.res, rx)
    IN  IF IsBlank(t)
        THEN [res |-> EmptyResult, exc |-> "", ai |-> None, rx |-> None,
              ai_called |-> FALSE, regex_called |-> FALSE]
        ELSE IF stage.done
        THEN [res |-> stage.res, exc |-> stage.exc, ai |-> stage.ai, rx |-> None,
              ai_called |-> stage.called, regex_called |-> FALSE]
        ELSE [res |-> fb.res, exc |-> "", ai |-> stage.ai, rx |-> fb.rx,
              ai_called |-> stage.called, regex_called |-> fb.called]

(***************************************************************************)
(* The inputs of a call.                                                   *)
(***************************************************************************)
Vocabulary ==
    {"", "   ", "Acme", "Total: $120.00", "DOS: 01/15/2024", "Invoice #: B-22",
     "Tax: $2.00", LongLine}

Texts == UNION {[1..n -> Vocabulary] : n \in 1..MaxLines}

NoEmail == [given |-> FALSE, subject |-> None, from |-> None, date |-> None]

EmailChoices ==
    {NoEmail,
     [given |-> TRUE, subject |-> Some("Re: Acme Dental"), from |-> None, date |-> None],
     [given |-> TRUE, subject |-> None,
      from |-> Some("Acme Billing <billing@acme.test>"),
      date |-> Some("Tue, 20 Feb 2024 10:30:00 +0000")],
     [given |-> TRUE, subject |-> None, from |-> Some(" <billing@acme.test>"),
      date |-> None]}

\* what the model may answer for a field
RawValues(k) ==
    CASE k = "event_date" -> {JNull, JStr("2024-01-10"), JStr("soon")}
      [] k = "submission_date" -> {JNull, JStr("2024-01-12")}
      [] k = "claim_amount" -> {JNull, JNum(15000)}
      [] k = "invoice_number" -> {JNull, JStr("INV-1")}
      [] k = "policy_number" -> {JNull, JStr("POL-555")}
      [] k = "vendor" -> {JNull, JStr(" Acme Corp "), JStr("   ")}
      [] OTHER -> {JNull, JNum(350)}

AllNull == [k \in KeySet |-> JNull]

\* dicts with at most MaxModelFields fields that are not null
ModelData ==
    {d \in [event_date : RawValues("event_date"),
            submission_date : RawValues("submission_date"),
            claim_amount : RawValues("claim_amount"),
            invoice_number : RawValues("invoice_number"),
            policy_number : RawValues("policy_number"),
            vendor : RawValues("vendor"),
            tax : RawValues("tax")] :
        Cardinality({k \in KeySet : d[k] # JNull}) <= MaxModelFields}

ResponseTexts ==
    {[kind |-> "object", data |-> d] : d \in ModelData}
    \cup {[kind |-> k, data |-> AllNull] : k \in {"prose", "empty_object", "array"}}

\* confidences a client may report; the shipped client reports 700 or 900
ClientConfidences == {500, 700, 800, 900}

GenerateErrors ==
    {"VLLMConnectionError", "VLLMTimeoutError", "VLLMClientError", "JSONDecodeError"}

NoResponse == [exc |-> "", text |-> [kind |-> "prose", data |-> AllNull], confidence |-> 0]

Responses ==
    {[exc |-> "", text |-> x, confidence |-> c] : x \in ResponseTexts, c \in ClientConfidences}
    \cup {[NoResponse EXCEPT !.exc = x] : x \in GenerateErrors}

\* generate is reached only with a client and a text that is not blank
ResponsesFor(client, t) ==
    IF client /\ ~IsBlank(t) THEN Responses ELSE {NoResponse}

(***************************************************************************)
(* The text-generation client, VLLMClient (src/src/vllm_client.py).        *)
(* One generate call is a sequence of request attempts on the client's     *)
(* shared session, then the close of that session.                         *)
(***************************************************************************)
\* the threads that use the one client: the one that runs the parser, and
\* one that calls generate directly
Callers == {"parser", "thread"}

EngineCaller == "parser"

\* texts the server generates
AmountText == [kind |-> "object", data |-> [AllNull EXCEPT !["claim_amount"] = JNum(15000)]]
TaxText == [kind |-> "object", data |-> [AllNull EXCEPT !["tax"] = JNum(350)]]
ProseText == [kind |-> "prose", data |-> AllNull]

\* the generated text and the finish_reason of a 200 reply: complete
\* answers, one cut at max_tokens, and one whose choice has no
\* finish_reason (line 174 then takes "")
Completions ==
    {[text |-> x, finish |-> "stop"] : x \in {AmountText, TaxText, ProseText}}
    \cup {[text |-> AmountText, finish |-> "length"],
          [text |-> TaxText, finish |-> ""]}

NoReply == [kind |-> "none", text |-> NoResponse.text, finish |-> ""]

\* what happens to one request: a 200 reply with a choice ("ok"), a 200
\* reply without choices, another status, a 200 reply whose body is not
\* JSON, an aiohttp.ClientError, or no answer within self.timeout
ServerReplies ==
    {[kind |-> "ok", text |-> x.text, finish |-> x.finish] : x \in Completions}
    \cup {[NoReply EXCEPT !.kind = k] :
            k \in {"no_choices", "http_error", "bad_json", "client_error", "timeout"}}

\* a request whose session is closed under it by another thread: it may
\* still complete, or be aborted with a ClientError or a RuntimeError
SeveredReplies(server) ==
    {server, [NoReply EXCEPT !.kind = "client_error"],
             [NoReply EXCEPT !.kind = "runtime_error"]}

\* the exception raised inside the try block of generate_async, lines 156-183
RequestException(reply) ==
    CASE reply.kind = "http_error" -> "VLLMConnectionError"
      [] reply.kind = "no_choices" -> "VLLMClientError"
      [] reply.kind = "bad_json" -> "JSONDecodeError"
      [] reply.kind = "client_error" -> "ClientError"
      [] reply.kind = "timeout" -> "TimeoutError"
      [] reply.kind = "runtime_error" -> "RuntimeError"
      [] OTHER -> ""

\* the except clauses, lines 185-188
ConvertException(exc) ==
    CASE exc = "TimeoutError" -> "VLLMTimeoutError"
      [] exc = "ClientError" -> "VLLMConnectionError"
      [] OTHER -> exc

\* mutant: the same confidence whatever the finish reason
ConfidenceOf_Flat(finish) == 900

\* mutant: an answer that did not stop gets a confidence at the gate
ConfidenceOf_Low(finish) == IF finish = "stop" THEN 900 ELSE 500

\* line 175
ConfidenceOf(finish) == IF finish = "stop" THEN 900 ELSE 700

\* one run of the body of generate_async: the exception it raises, or the
\* VLLMResponse it returns
AttemptOutcome(reply) ==
    LET exc == ConvertException(RequestException(reply))
    IN  IF exc # "" THEN [NoResponse EXCEPT !.exc = exc]
        ELSE [exc |-> "", text |-> reply.text, confidence |-> ConfidenceOf(reply.finish)]

\* line 110: stop_after_attempt(3)
StopAfterAttempt == 3

\* mutant: every exception is retried
ShouldRetry_Any(exc) == exc # ""

\* line 112: retry_if_exception_type((aiohttp.ClientError, asyncio.TimeoutError))
ShouldRetry(exc) == exc \in {"ClientError", "TimeoutError"}

\* mutant: no stop condition
RetryDecision_NoStop(exc, n) == exc # ""

\* the decorator, lines 109-114: after attempt n raised exc, try again?
RetryDecision(exc, n) == ShouldRetry(exc) /\ n < StopAfterAttempt

\* line 111: wait_exponential(multiplier=1, min=2, max=10), in seconds
WaitMultiplier == 1
WaitMin == 2
WaitMax == 10

Clamp(w) == IF w < WaitMin THEN WaitMin ELSE IF w > WaitMax THEN WaitMax ELSE w

\* the wait after attempt n failed.  The repository does not pin the retry
\* library: its releases compute multiplier * 2^(n-1) or multiplier * 2^n
\* before clamping, so either may be what the installed one does.
WaitExponential(n) ==
    {Clamp(WaitMultiplier * 2^(n - 1)), Clamp(WaitMultiplier * 2^n)}

\* waits: the sleeps the decorator has made between the attempts of the call
IdleCall ==
    [pc |-> "idle", attempts |-> 0, severed |-> FALSE, server |-> NoReply,
     reply |-> NoReply, out |-> NoResponse, waits |-> <<>>]

\* the values of the client's configuration
RetryChoices == {3, 5}
ThresholdChoices == {500, 700}

\* check_health has not asked the health endpoint
NoProbe == [exc |-> "unasked", status |-> 0]

(***************************************************************************)
(* The state machine: a parser, and one call at a time on it.              *)
(***************************************************************************)
\* __init__, lines 116-118
Init ==
    /\ vllm_client \in BOOLEAN
    /\ use_fallback \in BOOLEAN
    /\ pc = "idle"
    /\ text = <<"">>
    /\ email_data = NoEmail
    /\ response = NoResponse
    /\ result = EmptyResult
    /\ ai_result = None
    /\ regex_result = None
    /\ ai_called = FALSE
    /\ regex_called = FALSE
    /\ exception = ""
    /\ max_retries = 3
    /\ ai_min_confidence = 500
    /\ session = "none"
    /\ calls = [c \in Callers |-> IdleCall]
    /\ earlier = None
    /\ mpc = "start"
    /\ probe = NoProbe
    /\ healthy = "unasked"
    /\ ai_parser = FALSE
    /\ remaining = 0
    /\ receipts_data = <<>>
    /\ receipt_data = None

\* one call of extract_fields, from entry to return or raise
ExtractFields ==
    /\ pc = "idle"
    /\ \E t \in Texts, e \in EmailChoices :
         \E rx \in {extract_with_regex(t, e)}, r \in ResponsesFor(vllm_client, t) :
            \E out \in {extract_fields(vllm_client, use_fallback, t, rx, r)} :
                /\ text' = t
                /\ email_data' = e
                /\ response' = r
                /\ result' = out.res
                /\ ai_result' = out.ai
                /\ regex_result' = out.rx
                /\ ai_called' = out.ai_called
                /\ regex_called' = out.regex_called
                /\ exception' = out.exc
                /\ pc' = IF out.exc = "" THEN "returned" ELSE "raised"
    /\ UNCHANGED <<vllm_client, use_fallback>>
    /\ UNCHANGED cvars

\* the caller takes the result (or the exception); the parser is free again
Finish ==
    /\ pc \in {"returned", "raised"}
    /\ pc' = "idle"
    /\ text' = <<"">>
    /\ email_data' = NoEmail
    /\ response' = NoResponse
    /\ result' = EmptyResult
    /\ ai_result' = None
    /\ regex_result' = None
    /\ ai_called' = FALSE
    /\ regex_called' = FALSE
    /\ exception' = ""
    /\ UNCHANGED <<vllm_client, use_fallback>>
    /\ UNCHANGED cvars

\* set_vllm_client, lines 160-162
SetVllmClient ==
    /\ pc = "idle"
    /\ vllm_client' \in BOOLEAN
    /\ vllm_client' # vllm_client
    /\ UNCHANGED <<use_fallback, pc, text, email_data, response, result,
                   ai_result, regex_result, ai_called, regex_called, exception>>
    /\ UNCHANGED cvars

Next == ExtractFields \/ Finish \/ SetVllmClient

Spec == Init /\ [][Next]_vars

(***************************************************************************)
(* The same call step by step, with the client's generate spelled out as   *)
(* request attempts, and other threads calling generate on the same        *)
(* client at the same time.                                                *)
(***************************************************************************)
evars == <<vllm_client, use_fallback, pc, text, email_data, response, result,
           ai_result, regex_result, ai_called, regex_called, exception>>

CallTexts == {<<"">>, <<"Acme">>, <<"Total: $120.00">>}

\* a parser and a client, configured from config.py (main.py, lines 105-120)
ClientInit ==
    /\ vllm_client \in BOOLEAN
    /\ use_fallback \in BOOLEAN
    /\ pc = "idle"
    /\ text = <<"">>
    /\ email_data = NoEmail
    /\ response = NoResponse
    /\ result = EmptyResult
    /\ ai_result = None
    /\ regex_result = None
    /\ ai_called = FALSE
    /\ regex_called = FALSE
    /\ exception = ""
    /\ max_retries \in RetryChoices
    /\ ai_min_confidence \in ThresholdChoices
    /\ session = "none"
    /\ calls = [c \in Callers |-> IdleCall]
    /\ earlier = None
    /\ mpc = "start"
    /\ probe = NoProbe
    /\ healthy = "unasked"
    /\ ai_parser = FALSE
    /\ remaining = 0
    /\ receipts_data = <<>>
    /\ receipt_data = None

\* extract_fields up to the generate call: lines 188-193 and 240-257
CallStart ==
    /\ pc = "idle"
    /\ calls[EngineCaller].pc = "idle"
    /\ \E t \in CallTexts :
         /\ text' = t
         /\ IF IsBlank(t)
            THEN /\ pc' = "returned"
                 /\ UNCHANGED <<ai_called, calls>>
            ELSE IF vllm_client
            THEN /\ pc' = "generate"
                 /\ ai_called' = TRUE
                 /\ calls' = [calls EXCEPT ![EngineCaller] = [IdleCall EXCEPT !.pc = "start"]]
            ELSE /\ pc' = "fallback"
                 /\ UNCHANGED <<ai_called, calls>>
    /\ UNCHANGED <<vllm_client, use_fallback, email_data, response, result,
                   ai_result, regex_result, regex_called, exception>>
    /\ UNCHANGED <<max_retries, ai_min_confidence, session, mvars>>

\* another thread calls generate: lines 209-212
GenerateStart(c) ==
    /\ c # EngineCaller
    /\ calls[c].pc = "idle"
    /\ calls' = [calls EXCEPT ![c] = [IdleCall EXCEPT !.pc = "start"]]
    /\ UNCHANGED evars
    /\ UNCHANGED <<max_retries, ai_min_confidence, session, mvars>>

\* one attempt begins: _get_session (lines 85-98) makes a session if there
\* is none or it is closed, then the request is posted (line 157)
PostRequest(c) ==
    /\ calls[c].pc = "start"
    /\ calls[c].attempts < MaxAttempts
    /\ session' = "open"
    /\ \E r \in ServerReplies :
         calls' = [calls EXCEPT ![c] = [@ EXCEPT !.pc = "inflight",
                                                 !.attempts = @ + 1,
                                                 !.severed = FALSE,
                                                 !.server = r]]
    /\ UNCHANGED evars
    /\ UNCHANGED <<max_retries, ai_min_confidence, mvars>>

\* the attempt ends (lines 158-188) and the decorator decides (lines 109-114)
ReceiveReply(c) ==
    /\ calls[c].pc = "inflight"
    /\ \E r \in IF calls[c].severed THEN SeveredReplies(calls[c].server)
                ELSE {calls[c].server} :
         \E o \in {AttemptOutcome(r)}, w \in WaitExponential(calls[c].attempts) :
            calls' = [calls EXCEPT ![c] =
                        IF RetryDecision(ConvertException(RequestException(r)),
                                         calls[c].attempts)
                        THEN [@ EXCEPT !.pc = "start", !.reply = r,
                                       !.waits = Append(@, w)]
                        ELSE [@ EXCEPT !.pc = "closing", !.reply = r, !.out = o]]
    /\ UNCHANGED evars
    /\ UNCHANGED <<max_retries, ai_min_confidence, session, mvars>>

\* mutant: generate returns without closing the session
CloseSession_Keep(c) ==
    /\ calls[c].pc = "closing"
    /\ session' = session
    /\ calls' = [calls EXCEPT ![c] = [@ EXCEPT !.pc = "done"]]
    /\ UNCHANGED evars
    /\ UNCHANGED <<max_retries, ai_min_confidence, mvars>>

\* the finally block of generate, lines 214-217: close() closes whatever
\* session the client holds, under every request that is in flight on it
CloseSession(c) ==
    /\ calls[c].pc = "closing"
    /\ session' = IF session = "open" THEN "closed" ELSE session
    /\ calls' = [d \in Callers |->
                    IF d = c THEN [calls[d] EXCEPT !.pc = "done"]
                    ELSE IF session = "open" /\ calls[d].pc = "inflight"
                    THEN [calls[d] EXCEPT !.severed = TRUE]
                    ELSE calls[d]]
    /\ UNCHANGED evars
    /\ UNCHANGED <<max_retries, ai_min_confidence, mvars>>

\* the other thread takes what generate returned or raised
Collect(c) ==
    /\ c # EngineCaller
    /\ calls[c].pc = "done"
    /\ calls' = [calls EXCEPT ![c] = IdleCall]
    /\ UNCHANGED evars
    /\ UNCHANGED <<max_retries, ai_min_confidence, session, mvars>>

\* extract_fields after generate: decode, validate, gate, merge and the
\* early return, lines 260-269 and 194-209
AfterGenerate ==
    /\ pc = "generate"
    /\ calls[EngineCaller].pc = "done"
    /\ \E stage \in {AIStage(TRUE, calls[EngineCaller].out)} :
         /\ response' = calls[EngineCaller].out
         /\ ai_result' = stage.ai
         /\ result' = stage.res
         /\ exception' = stage.exc
         /\ pc' = IF ~stage.done THEN "fallback"
                  ELSE IF stage.exc = "" THEN "returned" ELSE "raised"
    /\ calls' = [calls EXCEPT ![EngineCaller] = IdleCall]
    /\ UNCHANGED <<vllm_client, use_fallback, text, email_data, regex_result,
                   ai_called, regex_called>>
    /\ UNCHANGED <<max_retries, ai_min_confidence, session, mvars>>

\* extract_fields, lines 212-228
Fallback ==
    /\ pc = "fallback"
    /\ \E fb \in {FallbackStage(use_fallback, result,
                                extract_with_regex(text, email_data))} :
         /\ result' = fb.res
         /\ regex_result' = fb.rx
         /\ regex_called' = fb.called
    /\ pc' = "returned"
    /\ UNCHANGED <<vllm_client, use_fallback, text, email_data, response,
                   ai_result, ai_called, exception>>
    /\ UNCHANGED cvars

Generate == \E c \in Callers : GenerateStart(c)
Post == \E c \in Callers : PostRequest(c)
Receive == \E c \in Callers : ReceiveReply(c)
Close == \E c \in Callers : CloseSession(c)
Take == \E c \in Callers : Collect(c)

ClientNext ==
    \/ CallStart
    \/ Generate
    \/ Post
    \/ Receive
    \/ Close
    \/ Take
    \/ AfterGenerate
    \/ Fallback
    \/ Finish

SpecClient == ClientInit /\ [][ClientNext]_vars

\* every step of a running call is taken in the end: the code is straight
\* line, and a request ends with a reply, an error or the session's timeout
\* (ClientTimeout(total=self.timeout), line 93)
Fairness ==
    /\ \A c \in Callers :
          WF_vars(PostRequest(c)) /\ WF_vars(ReceiveReply(c)) /\ WF_vars(CloseSession(c))
    /\ WF_vars(AfterGenerate)
    /\ WF_vars(Fallback)

\* a parser and a client with the defaults of config.py, lines 55 and 61
DefaultInit ==
    /\ vllm_client \in BOOLEAN
    /\ use_fallback \in BOOLEAN
    /\ pc = "idle"
    /\ text = <<"">>
    /\ email_data = NoEmail
    /\ response = NoResponse
    /\ result = EmptyResult
    /\ ai_result = None
    /\ regex_result = None
    /\ ai_called = FALSE
    /\ regex_called = FALSE
    /\ exception = ""
    /\ max_retries = 3
    /\ ai_min_confidence = 500
    /\ session = "none"
    /\ calls = [c \in Callers |-> IdleCall]
    /\ earlier = None
    /\ mpc = "start"
    /\ probe = NoProbe
    /\ healthy = "unasked"
    /\ ai_parser = FALSE
    /\ remaining = 0
    /\ receipts_data = <<>>
    /\ receipt_data = None

FairSpecClient == DefaultInit /\ [][ClientNext]_vars /\ Fairness

(***************************************************************************)
(* The pattern extractor on its own: _extract_with_regex applied to a      *)
(* text and its metadata.                                                  *)
(***************************************************************************)
PatternVocabulary ==
    {"", "Acme", "Printed: 01/20/2024", "DOS: 01/15/2024", "Ref 99/99/9999",
     "Total: $120.00", "Tax: $2.00", "Policy: POL-9", "Paid $150.00"}

PatternTexts == UNION {[1..n -> PatternVocabulary] : n \in 1..MaxLines}

\* a parser without a client
PatternInit ==
    /\ vllm_client = FALSE
    /\ use_fallback = TRUE
    /\ pc = "idle"
    /\ text = <<"">>
    /\ email_data = NoEmail
    /\ response = NoResponse
    /\ result = EmptyResult
    /\ ai_result = None
    /\ regex_result = None
    /\ ai_called = FALSE
    /\ regex_called = FALSE
    /\ exception = ""
    /\ max_retries = 3
    /\ ai_min_confidence = 500
    /\ session = "none"
    /\ calls = [c \in Callers |-> IdleCall]
    /\ earlier = None
    /\ mpc = "start"
    /\ probe = NoProbe
    /\ healthy = "unasked"
    /\ ai_parser = FALSE
    /\ remaining = 0
    /\ receipts_data = <<>>
    /\ receipt_data = None

\* one call of _extract_with_regex, lines 271-297
PatternExtract ==
    /\ pc = "idle"
    /\ \E t \in PatternTexts, e \in EmailChoices :
         /\ text' = t
         /\ email_data' = e
         /\ regex_result' = Some(extract_with_regex(t, e))
    /\ regex_called' = TRUE
    /\ pc' = "returned"
    /\ UNCHANGED <<vllm_client, use_fallback, response, result, ai_result,
                   ai_called, exception>>
    /\ UNCHANGED cvars

PatternNext == PatternExtract \/ Finish

SpecPattern == PatternInit /\ [][PatternNext]_vars

(***************************************************************************)
(* The legacy parser, ReceiptParser (src/receipt_parser.py).  Of the dict  *)
(* parse returns, the model keeps the keys main reads: date, vendor and    *)
(* total.  Its date_patterns are the three of the AI parser.               *)
(***************************************************************************)
NumCurrencyPatterns == 4
NumVendorPatterns == 4

\* currency_patterns[p].finditer(line): the captured groups, in order
CurrencyMatches(p, line) ==
    CASE line = "Total: $120.00" /\ p \in {1, 3} -> <<"120.00">>
      [] line = "DOS: 01/15/2024" /\ p = 1 -> <<"01", "15", "202", "4">>
      [] OTHER -> <<>>

\* vendor_patterns[p].search(line).group(1)
VendorMatch(p, line) ==
    IF p = 2 /\ line = "Merchant: Acme" THEN Some("Acme") ELSE None

SearchVendor(p, t) == FirstHit([i \in 1..Len(t) |-> VendorMatch(p, t[i])])

\* re.search(r'@([^.]+)', from_field).group(1).capitalize()
FromDomain(s) ==
    CASE s = "Acme Billing <billing@acme.test>" -> Some("Acme")
      [] s = " <billing@acme.test>" -> Some("Acme")
      [] OTHER -> None

\* _extract_date, lines 56-74: '' when there is no date
legacy_extract_date(t, e) ==
    LET parsed == FirstHit([p \in 1..NumDatePatterns |->
                      IF SearchDate(p, t) = None THEN None
                      ELSE parse_date(SearchDate(p, t)[1])])
        mailed == IF TruthyStr(EmailGet(e, "date"))
                  THEN parse_date(EmailGet(e, "date")[1])
                  ELSE None
    IN  IF parsed # None THEN parsed[1]
        ELSE IF mailed # None THEN mailed[1]
        ELSE ""

\* _extract_vendor, lines 76-111: the text first, then the subject, then
\* the sender; '' when there is no vendor
legacy_extract_vendor(t, e) ==
    LET hit == FirstHit([p \in 1..NumVendorPatterns |-> SearchVendor(p, t)])
        subject == IF TruthyStr(EmailGet(e, "subject"))
                   THEN Strip(StripReplyPrefix(EmailGet(e, "subject")[1]))
                   ELSE ""
        from == IF TruthyStr(EmailGet(e, "from")) THEN EmailGet(e, "from")[1] ELSE ""
    IN  IF hit # None THEN Strip(hit[1])
        ELSE IF subject # "" /\ StrLen(subject) < 100 THEN subject
        ELSE IF from = "" THEN ""
        ELSE IF FromDisplayName(from) # None THEN Strip(FromDisplayName(from)[1])
        ELSE IF FromDomain(from) # None THEN FromDomain(from)[1]
        ELSE ""

\* _extract_total, lines 113-133
legacy_extract_total(t) ==
    LET totals == UNION {ParsedAmounts(CurrencyMatches(p, t[i])) :
                            p \in 1..NumCurrencyPatterns, i \in 1..Len(t)}
    IN  IF totals = {} THEN None ELSE Some(Max(totals))

\* a receipt_data dict without any of the keys
EmptyReceipt ==
    [date |-> None, vendor |-> None, total |-> None,
     extraction_method |-> None, confidence |-> None]

\* parse, lines 34-54: {} for an empty text
parse(t, e) ==
    IF t = <<"">> THEN EmptyReceipt
    ELSE [EmptyReceipt EXCEPT !.date = Some(legacy_extract_date(t, e)),
                              !.vendor = Some(legacy_extract_vendor(t, e)),
                              !.total = legacy_extract_total(t)]

(***************************************************************************)
(* The main pipeline (src/main.py) and the health probe of the client.     *)
(***************************************************************************)
HealthStatuses == {200, 204, 503}

\* what requests.get on the health endpoint does: a reply with a status,
\* or an exception
HealthReplies ==
    {[exc |-> "", status |-> n] : n \in HealthStatuses}
    \cup {[exc |-> x, status |-> 0] : x \in {"ConnectionError", "Timeout"}}

\* mutant: every 2xx status counts as healthy
check_health_AnySuccess(reply) ==
    [ret |-> reply.exc = "" /\ reply.status < 300, exc |-> ""]

\* check_health, vllm_client.py lines 219-233: ret is what it returns, exc
\* the exception that escapes it
check_health(reply) ==
    [ret |-> reply.exc = "" /\ reply.status = 200, exc |-> ""]

\* bool(x) of a number that may be None
TruthyNum(o) == o # None /\ o[1] # 0

\* lines 233-247: receipt_data from the fields the AI parser returned
ai_receipt(fields) ==
    [date |-> IF TruthyStr(fields["event_date"]) THEN fields["event_date"]
              ELSE fields["submission_date"],
     vendor |-> fields["vendor"],
     total |-> fields["claim_amount"],
     extraction_method |-> Some(fields["extraction_method"]),
     confidence |-> Some(fields["confidence"])]

LegacyConfidence == 600

\* lines 257-259: the legacy parse, tagged
legacy_receipt(t, e) ==
    [parse(t, e) EXCEPT !.extraction_method = Some("regex"),
                        !.confidence = Some(LegacyConfidence)]

\* mutant: an email on which the AI parser raised is left without receipt
receipt_for_NoFallback(parser, out, t, e) ==
    IF ~parser THEN Some(legacy_receipt(t, e))
    ELSE IF out.exc = "" THEN Some(ai_receipt(out.res))
    ELSE None

\* lines 225-259: the receipt_data of one email with text; out is what
\* extract_fields did, if there is an AI parser
receipt_for(parser, out, t, e) ==
    IF parser /\ out.exc = "" THEN Some(ai_receipt(out.res))
    ELSE Some(legacy_receipt(t, e))

\* line 262: vendor, total or date is truthy
has_receipt(row) ==
    TruthyStr(row.vendor) \/ TruthyNum(row.total) \/ TruthyStr(row.date)

\* the text of an email, body and attachments
MainTexts ==
    {<<"">>, <<"Acme">>, <<"Total: $120.00">>, <<"Merchant: Acme", "DOS: 01/15/2024">>}

\* get_email_content always returns a dict
MainEmails == {e \in EmailChoices : e.given}

\* what the shipped client's generate gives the AI parser: the outcome of
\* a request, or a completion that is a JSON array
MainResponses ==
    {AttemptOutcome(r) : r \in ServerReplies}
    \cup {[exc |-> "", text |-> [kind |-> "array", data |-> AllNull], confidence |-> 900]}

\* main before anything ran
MainInit ==
    /\ vllm_client = FALSE
    /\ use_fallback = TRUE
    /\ pc = "idle"
    /\ text = <<"">>
    /\ email_data = NoEmail
    /\ response = NoResponse
    /\ result = EmptyResult
    /\ ai_result = None
    /\ regex_result = None
    /\ ai_called = FALSE
    /\ regex_called = FALSE
    /\ exception = ""
    /\ max_retries = 3
    /\ ai_min_confidence = 500
    /\ session = "none"
    /\ calls = [c \in Callers |-> IdleCall]
    /\ earlier = None
    /\ mpc = "start"
    /\ probe = NoProbe
    /\ healthy = "unasked"
    /\ ai_parser = FALSE
    /\ remaining = 0
    /\ receipts_data = <<>>
    /\ receipt_data = None

\* main up to the loop, lines 92-176.  wanted: args.use_ai or
\* config.VLLM_ENABLED; available: AI_AVAILABLE; found: len(messages),
\* 0 also standing for the exits before the loop
StartUp ==
    /\ mpc = "start"
    /\ \E wanted \in BOOLEAN, available \in BOOLEAN, reply \in HealthReplies,
          fallback \in BOOLEAN, found \in 0..MaxEmails :
         /\ IF wanted /\ available
            THEN \E h \in {check_health(reply)} :
                    /\ probe' = reply
                    /\ healthy' = IF h.exc # "" THEN "raised"
                                  ELSE IF h.ret THEN "true" ELSE "false"
                    /\ ai_parser' = (h.exc = "" /\ h.ret)
                    /\ vllm_client' = (h.exc = "" /\ h.ret)
                    /\ use_fallback' = IF h.exc = "" /\ h.ret THEN fallback
                                       ELSE use_fallback
            ELSE UNCHANGED <<probe, healthy, ai_parser, vllm_client, use_fallback>>
         /\ remaining' = found
         /\ mpc' = IF found = 0 THEN "done" ELSE "loop"
    /\ UNCHANGED <<pc, text, email_data, response, result, ai_result,
                   regex_result, ai_called, regex_called, exception>>
    /\ UNCHANGED <<max_retries, ai_min_confidence, session, calls, earlier,
                   receipts_data, receipt_data>>

\* one turn of the loop, lines 176-271.  readable: get_email_content
\* returned a dict
ProcessEmail ==
    /\ mpc = "loop"
    /\ remaining > 0
    /\ \E readable \in BOOLEAN, t \in MainTexts, e \in MainEmails :
         IF ~readable \/ t = <<"">>
         THEN /\ text' = <<"">>
              /\ email_data' = NoEmail
              /\ response' = NoResponse
              /\ result' = EmptyResult
              /\ exception' = ""
              /\ ai_called' = FALSE
              /\ receipt_data' = None
              /\ UNCHANGED receipts_data
         ELSE \E r \in IF ai_parser THEN MainResponses ELSE {NoResponse} :
                \E out \in {extract_fields(vllm_client, use_fallback, t,
                                           extract_with_regex(t, e), r)} :
                  \E row \in {receipt_for(ai_parser, out, t, e)} :
                     /\ text' = t
                     /\ email_data' = e
                     /\ response' = r
                     /\ result' = IF ai_parser THEN out.res ELSE EmptyResult
                     /\ exception' = IF ai_parser THEN out.exc ELSE ""
                     /\ ai_called' = ai_parser
                     /\ receipt_data' = row
                     /\ receipts_data' =
                           IF row # None /\ has_receipt(row[1])
                           THEN Append(receipts_data, row[1])
                           ELSE receipts_data
    /\ remaining' = remaining - 1
    /\ UNCHANGED <<vllm_client, use_fallback, pc, ai_result, regex_result,
                   regex_called>>
    /\ UNCHANGED <<max_retries, ai_min_confidence, session, calls, earlier,
                   mpc, probe, healthy, ai_parser>>

\* after the loop, lines 273-290: the receipts are written
WriteReceipts ==
    /\ mpc = "loop"
    /\ remaining = 0
    /\ mpc' = "done"
    /\ UNCHANGED evars
    /\ UNCHANGED <<max_retries, ai_min_confidence, session, calls, earlier,
                   probe, healthy, ai_parser, remaining, receipts_data,
                   receipt_data>>

MainNext == StartUp \/ ProcessEmail \/ WriteReceipts

SpecMain == MainInit /\ [][MainNext]_vars

(***************************************************************************)
(* The pattern extractor called again and again on one parser: a call may  *)
(* be remembered, and any number of other calls may come between it and    *)
(* the call it is compared with.                                           *)
(***************************************************************************)
RepeatTexts ==
    {<<"Acme">>, <<"Total: $120.00", "Paid $150.00">>,
     <<"Printed: 01/20/2024", "DOS: 01/15/2024">>, <<"Policy: POL-9", "Tax: $2.00">>}

\* a parser without a client, and no call remembered
RepeatInit ==
    /\ vllm_client = FALSE
    /\ use_fallback = TRUE
    /\ pc = "idle"
    /\ text = <<"">>
    /\ email_data = NoEmail
    /\ response = NoResponse
    /\ result = EmptyResult
    /\ ai_result = None
    /\ regex_result = None
    /\ ai_called = FALSE
    /\ regex_called = FALSE
    /\ exception = ""
    /\ max_retries = 3
    /\ ai_min_confidence = 500
    /\ session = "none"
    /\ calls = [c \in Callers |-> IdleCall]
    /\ earlier = None
    /\ mpc = "start"
    /\ probe = NoProbe
    /\ healthy = "unasked"
    /\ ai_parser = FALSE
    /\ remaining = 0
    /\ receipts_data = <<>>
    /\ receipt_data = None

\* one call of _extract_with_regex, lines 271-297: it reads the pattern
\* tables and its arguments and assigns no attribute of the parser
RepeatExtract ==
    /\ pc = "idle"
    /\ \E t \in RepeatTexts, e \in EmailChoices :
         /\ text' = t
         /\ email_data' = e
         /\ regex_result' = Some(extract_with_regex(t, e))
    /\ regex_called' = TRUE
    /\ pc' = "returned"
    /\ UNCHANGED <<vllm_client, use_fallback, response, result, ai_result,
                   ai_called, exception>>
    /\ UNCHANGED cvars

\* the caller takes the output and keeps it, with the arguments, to compare
\* a later call with
Keep ==
    /\ pc = "returned"
    /\ earlier' = Some([text |-> text, email_data |-> email_data,
                        out |-> regex_result[1]])
    /\ pc' = "idle"
    /\ text' = <<"">>
    /\ email_data' = NoEmail
    /\ regex_result' = None
    /\ regex_called' = FALSE
    /\ UNCHANGED <<vllm_client, use_fallback, response, result, ai_result,
                   ai_called, exception>>
    /\ UNCHANGED <<max_retries, ai_min_confidence, session, calls, mpc, probe,
                   healthy, ai_parser, remaining, receipts_data, receipt_data>>

RepeatNext == RepeatExtract \/ Keep \/ Finish

SpecRepeat == RepeatInit /\ [][RepeatNext]_vars

(***************************************************************************)
(* Vocabulary of the properties.                                           *)
(***************************************************************************)
Returned == pc = "returned"

\* the text argument is empty or holds only whitespace
TextIsBlank == \A i \in 1..Len(text) : text[i] \in {"", "   "}

\* _extract_with_ai returned: the model's output was decoded and validated
ModelReturned == ai_result # None

\* the decoded result passed the confidence gate and was merged
ModelAdopted == ModelReturned /\ ai_result[1]["confidence"] > 500

\* what the pattern extractor gives for this call's text and metadata
PatternOutput == extract_with_regex(text, email_data)

(***************************************************************************)
(* C1: extract_fields never raises, whatever the text and however the      *)
(* model attempt fails (client error, undecodable output, or any other     *)
(* exception of the generate or decode step).                              *)
(* The code catches VLLMClientError only, so this is violated.             *)
(***************************************************************************)
C1_NeverRaises == pc # "raised"

(***************************************************************************)
(* C2: for empty or whitespace-only text the call returns at once: all     *)
(* seven fields absent, extraction_method none, confidence 0.0, and        *)
(* neither the inference client nor the pattern extractor was invoked.     *)
(***************************************************************************)
C2_BlankReturnsEmpty ==
    (pc # "idle" /\ TextIsBlank) =>
        /\ Returned
        /\ \A k \in KeySet : result[k] = None
        /\ result["extraction_method"] = "none"
        /\ result["confidence"] = 0
        /\ ~ai_called
        /\ ~regex_called

\* a whitespace-only text handed to a parser that has a client and a fallback
C2_Witness ==
    /\ Returned /\ TextIsBlank /\ vllm_client /\ use_fallback
    /\ \E i \in 1..Len(text) : text[i] = "   "

(***************************************************************************)
(* C3: when the model attempt succeeds with confidence above the           *)
(* threshold and an anchor field is populated after adoption, the call     *)
(* returns at once: the pattern extractor is not invoked, the method is    *)
(* 'ai', the confidence is the model's, every field is the model's         *)
(* validated value.                                                        *)
(***************************************************************************)
C3_ShortCircuit ==
    (pc # "idle" /\ ModelAdopted /\ \E f \in AnchorFields : ai_result[1][f] # None) =>
        /\ Returned
        /\ ~regex_called
        /\ result["extraction_method"] = "ai"
        /\ result["confidence"] = ai_result[1]["confidence"]
        /\ \A k \in KeySet : result[k] = ai_result[1][k]

\* the short circuit leaves the vendor absent although the fallback is
\* enabled and the pattern extractor would have supplied one
C3_Witness ==
    /\ Returned /\ ModelAdopted /\ use_fallback
    /\ \E f \in AnchorFields : ai_result[1][f] # None
    /\ result["vendor"] = None
    /\ PatternOutput["vendor"] # None

(***************************************************************************)
(* C4 as stated: in every call in which the model attempt returned a       *)
(* decoded result, a field the model populated keeps the model's value in  *)
(* the final result, also when the model's confidence is at or below the   *)
(* threshold.  Violated: at or below the threshold nothing is merged.      *)
(***************************************************************************)
C4_MergeLawAnyConfidence ==
    (Returned /\ ModelReturned) =>
        \A k \in KeySet : ai_result[1][k] # None => result[k] = ai_result[1][k]

(***************************************************************************)
(* C4 amended: in every call in which the model attempt returned a decoded *)
(* result with confidence above the threshold, a field the model populated *)
(* keeps the model's value; the pattern extractor never overwrites it.     *)
(***************************************************************************)
C4_MergeLawAdopted ==
    (Returned /\ ModelAdopted) =>
        \A k \in KeySet : ai_result[1][k] # None => result[k] = ai_result[1][k]

\* the fallback ran and found another value for a field the model populated
C4_Witness ==
    /\ Returned /\ ModelAdopted /\ regex_called
    /\ \E k \in KeySet :
          /\ ai_result[1][k] # None
          /\ regex_result[1][k] # None
          /\ regex_result[1][k] # ai_result[1][k]
          /\ result[k] = ai_result[1][k]

\* the case of Scenario C: confidence 0.8, amount and invoice number from
\* the model, no vendor from the model, a vendor from the pattern extractor
ScenarioC ==
    /\ Returned /\ ModelReturned
    /\ ai_result[1]["confidence"] = 800
    /\ ai_result[1]["claim_amount"] # None
    /\ ai_result[1]["invoice_number"] # None
    /\ ai_result[1]["vendor"] = None
    /\ PatternOutput["vendor"] # None

(***************************************************************************)
(* C5 as stated: in Scenario C the final vendor is the pattern             *)
(* extractor's, the amount is the model's and the method is hybrid.        *)
(* Violated: the call returns at the gate, before the pattern extractor.   *)
(***************************************************************************)
C5_ScenarioCHybrid ==
    ScenarioC =>
        /\ result["vendor"] = PatternOutput["vendor"]
        /\ result["claim_amount"] = ai_result[1]["claim_amount"]
        /\ result["extraction_method"] = "hybrid"

(***************************************************************************)
(* C5 amended: in Scenario C the call returns at the confidence gate       *)
(* without running the pattern extractor: vendor absent, amount and        *)
(* invoice number the model's, method 'ai', confidence 0.8.                *)
(***************************************************************************)
C5_ScenarioCModelOnly ==
    ScenarioC =>
        /\ ~regex_called
        /\ result["vendor"] = None
        /\ result["claim_amount"] = ai_result[1]["claim_amount"]
        /\ result["invoice_number"] = ai_result[1]["invoice_number"]
        /\ result["extraction_method"] = "ai"
        /\ result["confidence"] = 800

\* Scenario C with the fallback enabled and the scenario's own values
C5_Witness ==
    /\ ScenarioC /\ use_fallback
    /\ ai_result[1]["claim_amount"] = Some(15000)
    /\ ai_result[1]["invoice_number"] = Some("INV-1")
    /\ PatternOutput["vendor"] = Some("Acme")

(***************************************************************************)
(* C6: in every returned result, for either setting of use_fallback,       *)
(* extraction_method 'ai' implies that the model output was decoded and    *)
(* that an anchor field is populated.                                      *)
(* Violated with use_fallback off: the tag stays 'ai' without an anchor.   *)
(***************************************************************************)
C6_ModelTagImpliesAnchor ==
    (Returned /\ result["extraction_method"] = "ai") =>
        /\ ModelReturned
        /\ \E f \in AnchorFields : result[f] # None

(***************************************************************************)
(* C7: in every returned result extraction_method none implies that all    *)
(* seven fields are absent.                                                *)
(***************************************************************************)
C7_NoneImpliesAllAbsent ==
    (Returned /\ result["extraction_method"] = "none") =>
        \A k \in KeySet : result[k] = None

\* tagged none although the model populated a field: the result was below
\* the gate and the fallback is disabled
C7_Witness ==
    /\ Returned /\ result["extraction_method"] = "none"
    /\ ~TextIsBlank /\ ModelReturned
    /\ \E k \in KeySet : ai_result[1][k] # None

(***************************************************************************)
(* C8: with the fallback enabled and a text that is not blank, if no       *)
(* client is configured or the model attempt fails with a client error,    *)
(* the result is tagged 'regex', has confidence 0.6 and every field is the *)
(* pattern extractor's output for that text and metadata.                  *)
(***************************************************************************)
C8_PatternOnly ==
    (/\ pc # "idle" /\ use_fallback /\ ~TextIsBlank
     /\ \/ ~vllm_client
        \/ response.exc \in {"VLLMClientError", "VLLMConnectionError", "VLLMTimeoutError"}
        \/ (response.exc = "" /\ response.text.kind \in {"prose", "empty_object"})) =>
        /\ Returned
        /\ result["extraction_method"] = "regex"
        /\ result["confidence"] = 600
        /\ \A k \in KeySet : result[k] = PatternOutput[k]

\* a connection error, and the pattern extractor found an amount
C8_Witness ==
    /\ Returned /\ use_fallback /\ vllm_client /\ ai_called
    /\ response.exc = "VLLMConnectionError"
    /\ result["extraction_method"] = "regex"
    /\ result["claim_amount"] # None

\* the pattern fallback ran after the model's result was adopted and gave
\* no field a value
FallbackAddedNothing ==
    /\ regex_called
    /\ \A k \in KeySet : ai_result[1][k] = None => result[k] = None

(***************************************************************************)
(* C9 as stated: if the model contributed fields and the fallback ran but  *)
(* added no new value the method stays 'ai'; it is hybrid only when both   *)
(* extractors contributed a field value.                                   *)
(* Violated: the code tags hybrid whenever the fallback runs after         *)
(* adoption.                                                               *)
(***************************************************************************)
C9_HybridOnlyIfBothContributed ==
    (Returned /\ ModelAdopted) =>
        /\ ((\E k \in KeySet : ai_result[1][k] # None) /\ FallbackAddedNothing)
              => result["extraction_method"] = "ai"
        /\ result["extraction_method"] = "hybrid" =>
              /\ \E k \in KeySet : ai_result[1][k] # None
              /\ \E k \in KeySet : ai_result[1][k] = None /\ result[k] # None

(***************************************************************************)
(* C9 amended: once the model's result is adopted, the method is hybrid    *)
(* exactly when the pattern fallback ran, whether or not it added a field  *)
(* value; it stays 'ai' exactly when the fallback did not run.             *)
(***************************************************************************)
C9_HybridIffFallbackRan ==
    (Returned /\ ModelAdopted) =>
        /\ result["extraction_method"] \in {"ai", "hybrid"}
        /\ result["extraction_method"] = "hybrid" <=> regex_called

\* the model contributed a field, the fallback ran and added nothing
C9_Witness ==
    /\ Returned /\ ModelAdopted
    /\ \E k \in KeySet : ai_result[1][k] # None
    /\ FallbackAddedNothing
    /\ result["extraction_method"] = "hybrid"

(***************************************************************************)
(* C10: the result's confidence is the arithmetic mean of the model's      *)
(* confidence and 0.6 when the method is hybrid, the model's confidence    *)
(* when it is 'ai', and 0.6 when it is 'regex'.                            *)
(***************************************************************************)
C10_Confidence ==
    Returned =>
        /\ result["extraction_method"] = "hybrid" =>
              ModelReturned /\ 2 * result["confidence"] = ai_result[1]["confidence"] + 600
        /\ result["extraction_method"] = "ai" =>
              ModelReturned /\ result["confidence"] = ai_result[1]["confidence"]
        /\ result["extraction_method"] = "regex" => result["confidence"] = 600

\* a hybrid result: the model said 0.8, the mean is 0.7
C10_Witness ==
    /\ Returned /\ result["extraction_method"] = "hybrid"
    /\ ai_result[1]["confidence"] = 800
    /\ result["confidence"] = 700

(***************************************************************************)
(* C11: every returned result has a confidence within [0.0, 1.0] and an    *)
(* extraction_method among 'none', 'regex', 'ai' and 'hybrid', given that  *)
(* the client reports confidences within [0, 1].                           *)
(***************************************************************************)
MethodTags == {"none", "regex", "ai", "hybrid"}

C11_ConfidenceAndTagInRange ==
    Returned =>
        /\ result["confidence"] \in 0..1000
        /\ result["extraction_method"] \in MethodTags

\* a hybrid result of a model answer at 0.9: the mean, 0.75, is in range
C11_Witness ==
    /\ Returned /\ result["extraction_method"] = "hybrid"
    /\ ai_result[1]["confidence"] = 900
    /\ result["confidence"] = 750

(***************************************************************************)
(* Vocabulary of the client's properties.                                  *)
(***************************************************************************)
\* the generate call of c is over: it returned or raised
GenerateEnded(c) == calls[c].pc \in {"closing", "done"}

\* the last request of c failed with a network error or a timeout
TransientFailure(c) == calls[c].reply.kind \in {"client_error", "timeout"}

\* the last request of c got a reply that is not 200, or a 200 reply
\* without choices
PermanentFailure(c) == calls[c].reply.kind \in {"http_error", "no_choices"}

(***************************************************************************)
(* C12: a generate call whose request fails with a network error or a      *)
(* timeout is attempted again, up to max_retries attempts in all; the      *)
(* error propagates only once that many attempts were made.                *)
(* Lines 185-188 turn both errors into VLLM errors inside the decorated    *)
(* function, which the retry predicate of line 112 does not match, and     *)
(* line 110 stops at 3 whatever max_retries is: this is violated.          *)
(***************************************************************************)
C12_TransientFailureRetried ==
    \A c \in Callers :
        GenerateEnded(c) /\ TransientFailure(c) => calls[c].attempts = max_retries

(***************************************************************************)
(* C13: a reply with a status other than 200, or a 200 reply without       *)
(* choices, ends the generate call at once with a client error: the call   *)
(* made exactly one request and never tries again.                         *)
(***************************************************************************)
C13_PermanentFailureNotRetried ==
    \A c \in Callers :
        PermanentFailure(c) =>
            /\ GenerateEnded(c)
            /\ calls[c].attempts = 1
            /\ IsVLLMClientError(calls[c].out.exc)

\* a call that got a 503: one attempt, VLLMConnectionError
C13_Witness ==
    \E c \in Callers :
        /\ calls[c].pc = "done"
        /\ calls[c].reply.kind = "http_error"
        /\ calls[c].attempts = 1
        /\ calls[c].out.exc = "VLLMConnectionError"

(***************************************************************************)
(* C14: when the generated text holds no brace-delimited structure that    *)
(* parses, decoding signals an error rather than an empty result: the      *)
(* model attempt counts as failed (the call goes on as after a client      *)
(* error), no model field is adopted, and the method is never 'ai' or      *)
(* 'hybrid'.                                                               *)
(* A text that is JSON without braces (an array) is decoded by the         *)
(* whole-text json.loads of line 275 into a list: this is violated.        *)
(***************************************************************************)
NoBraceStructure ==
    /\ pc # "idle" /\ ai_called
    /\ response.exc = ""
    /\ response.text.kind \in {"prose", "array"}

C14_UndecodableCountsAsFailed ==
    NoBraceStructure =>
        /\ Returned
        /\ ai_result = None
        /\ result["extraction_method"] \notin {"ai", "hybrid"}

(***************************************************************************)
(* C16: in every result whose method is 'regex' or 'hybrid', a populated   *)
(* event_date comes with a populated submission_date; and when the model   *)
(* supplied neither date, the two are equal.                               *)
(***************************************************************************)
ModelSuppliedNoDate ==
    ~ModelAdopted
    \/ (ai_result[1]["event_date"] = None /\ ai_result[1]["submission_date"] = None)

C16_SubmissionFollowsEvent ==
    Returned /\ result["extraction_method"] \in {"regex", "hybrid"} =>
        /\ result["event_date"] # None => result["submission_date"] # None
        /\ ModelSuppliedNoDate => result["submission_date"] = result["event_date"]

\* a pattern-only result with the date of service in both fields
C16_Witness ==
    /\ Returned /\ result["extraction_method"] = "regex"
    /\ result["event_date"] = Some("2024-01-15")
    /\ result["submission_date"] = Some("2024-01-15")

(***************************************************************************)
(* C15: every call of extract_fields ends.  It makes at most one generate  *)
(* call, that call makes a bounded number of request attempts, each of     *)
(* which ends within the timeout, and the pattern fallback then completes: *)
(* no path waits forever.                                                  *)
(***************************************************************************)
CallRunning == pc \in {"generate", "fallback"}

CallEnded == pc \in {"returned", "raised"}

AdoptedInResult ==
    /\ pc \in {"fallback", "returned"}
    /\ ModelReturned
    /\ result["extraction_method"] \in {"ai", "hybrid"}

C17_ConfiguredThresholdGates ==
    AdoptedInResult => ai_result[1]["confidence"] > ai_min_confidence

(***************************************************************************)
(* C18: when two callers run generate on the same client at the same       *)
(* time, no request in flight has its session closed or replaced by the    *)
(* other call, and each call ends with the outcome it would have had       *)
(* alone.                                                                  *)
(* The finally block of generate closes the one shared session, whoever    *)
(* else is using it: this is violated.                                     *)
(***************************************************************************)
C18_ConcurrentCallsIsolated ==
    \A c \in Callers :
        /\ calls[c].pc = "inflight" => ~calls[c].severed
        /\ GenerateEnded(c) => calls[c].out = AttemptOutcome(calls[c].server)

(***************************************************************************)
(* C19: the pattern extractor takes vendor or event_date from the          *)
(* metadata only when the text yields no value for that field; a value     *)
(* found in the text always takes precedence.                              *)
(* _extract_vendor_regex tries the subject and the sender before the       *)
(* text (lines 406-417), so for the vendor this is violated.               *)
(***************************************************************************)
\* what the text alone yields
TextVendor == extract_vendor_regex(text, NoEmail)

TextDate == extract_date_regex(text, NoEmail)

C19_MetadataOnlyFallback ==
    regex_result # None =>
        /\ TextVendor # None => regex_result[1]["vendor"] = TextVendor
        /\ TextDate # None => regex_result[1]["event_date"] = TextDate

(***************************************************************************)
(* C20: pattern date extraction first searches the patterns labelled as    *)
(* a service date (Date of Service, Service Date, DOS, Treatment Date,     *)
(* Visit Date) and prefers a date found there; the generic date scan is    *)
(* used only when no labelled date is found.                               *)
(* _extract_date_regex never reads event_date_patterns: the first generic  *)
(* match wins, so this is violated.                                        *)
(***************************************************************************)
\* the date the labelled patterns of lines 152-158 find in the text
LabelledDate ==
    FirstHit([p \in 1..NumEventDatePatterns |->
        IF SearchEventDate(p, text) = None THEN None
        ELSE parse_date(SearchEventDate(p, text)[1])])

C20_LabelledDatePreferred ==
    regex_result # None /\ LabelledDate # None =>
        regex_result[1]["event_date"] = LabelledDate

(***************************************************************************)
(* C21: in every result each of the seven fields is absent or a positively *)
(* identified value: no field is ever the empty string, whatever the       *)
(* model answers (strings of whitespace included) and whatever the         *)
(* metadata (a sender with a blank display name included).                 *)
(* Line 334 strips a truthy string without looking at what is left, and    *)
(* line 417 returns the stripped display name as it is: this is violated.  *)
(***************************************************************************)
\* the fields that hold strings; the two amounts are numbers
StringFields == KeySet \ {"claim_amount", "tax"}

C21_NoEmptyStringField ==
    Returned => \A k \in StringFields : result[k] # Some("")

(***************************************************************************)
(* C22: pattern amount extraction returns the maximum of all the values    *)
(* matched by any amount pattern anywhere in the text, and returns absent  *)
(* exactly when no candidate parses as a number.                           *)
(***************************************************************************)
\* every number an amount pattern captures somewhere in the text
AmountCandidates ==
    {FloatOfStr(AmountMatches(p, text[i])[j])[1] :
        <<p, i, j>> \in {x \in (1..NumAmountPatterns) \X (1..Len(text)) \X (1..2) :
            /\ x[3] <= Len(AmountMatches(x[1], text[x[2]]))
            /\ FloatOfStr(AmountMatches(x[1], text[x[2]])[x[3]]) # None}}

C22_AmountIsMaximum ==
    regex_result # None =>
        /\ regex_result[1]["claim_amount"] = None <=> AmountCandidates = {}
        /\ regex_result[1]["claim_amount"] # None =>
              /\ regex_result[1]["claim_amount"][1] \in AmountCandidates
              /\ \A c \in AmountCandidates : c <= regex_result[1]["claim_amount"][1]

\* the labelled total is 120, a later unlabelled amount is 150: 150 wins
C22_Witness ==
    /\ regex_result # None
    /\ text = <<"Total: $120.00", "Paid $150.00">>
    /\ regex_result[1]["claim_amount"] = Some(15000)


\* the arguments of the call in progress are those of the remembered call
SameArguments ==
    /\ earlier # None
    /\ earlier[1].text = text
    /\ earlier[1].email_data = email_data

ModelOnlyFields == {"submission_date", "policy_number", "tax"}

\* C27: in a result tagged 'hybrid' the model supplied none of the four
\* anchor fields: each anchor holds what the pattern extractor found, and
\* a field that differs from the pattern extractor's is one of
\* submission_date, policy_number, tax, holding the model's value
C27_HybridAnchorsFromPatterns ==
    Returned /\ result["extraction_method"] = "hybrid" =>
        /\ ModelReturned
        /\ regex_result # None
        /\ \A f \in AnchorFields :
              /\ ai_result[1][f] = None
              /\ result[f] = regex_result[1][f]
        /\ \A k \in KeySet :
              result[k] # regex_result[1][k] =>
                  /\ k \in ModelOnlyFields
                  /\ result[k] = ai_result[1][k]

\* the model gave only the tax, the patterns found the amount
C27_Witness ==
    /\ Returned
    /\ result["extraction_method"] = "hybrid"
    /\ ai_result[1]["tax"] = Some(350)
    /\ result["tax"] = Some(350)
    /\ regex_result[1]["tax"] = Some(200)
    /\ result["claim_amount"] = Some(12000)


\* generate of c ended with a VLLMResponse
GenerateReturned(c) == GenerateEnded(c) /\ calls[c].out.exc = ""

\* C25: the confidence generate derives for a completion that ended with
\* finish_reason 'stop' is strictly higher than the one it derives for a
\* completion that ended otherwise, cut at the length limit or without a
\* finish reason
C25_StopScoresHigher ==
    \A c, d \in Callers :
        /\ GenerateReturned(c)
        /\ GenerateReturned(d)
        /\ calls[c].reply.finish = "stop"
        /\ calls[d].reply.finish # "stop"
        => calls[c].out.confidence > calls[d].out.confidence

\* one call ended on 'stop', the other without a finish reason
C25_Witness ==
    /\ GenerateReturned("parser")
    /\ GenerateReturned("thread")
    /\ calls["parser"].reply.finish = "stop"
    /\ calls["thread"].reply.finish = ""
    /\ calls["parser"].out.confidence = 900
    /\ calls["thread"].out.confidence = 700

\* C26: a generate call whose requests fail with a network error has slept
\* twice between its three attempts, the second sleep longer than the first
C26_BackoffWaitsIncrease ==
    \A c \in Callers :
        GenerateEnded(c) /\ TransientFailure(c) =>
            /\ Len(calls[c].waits) >= 2
            /\ calls[c].waits[1] < calls[c].waits[2]

\* C28: with the confidences of the shipped client a decoded model result
\* always passes the gate and is adopted, and a result is tagged 'regex'
\* only when there is no client or the model attempt raised a client error
C28_DecodedResultPassesGate ==
    /\ pc \in {"fallback", "returned"} /\ ModelReturned =>
          /\ ai_result[1]["confidence"] \in {700, 900}
          /\ ai_result[1]["confidence"] > AcceptThreshold
          /\ result["extraction_method"] \in {"ai", "hybrid"}
    /\ Returned /\ result["extraction_method"] = "regex" =>
          \/ ~vllm_client
          \/ IsVLLMClientError(extract_with_ai(TRUE, response).exc)

\* a completion cut at the length limit is decoded, scored 0.7 and adopted
C28_Witness ==
    /\ Returned
    /\ ModelReturned
    /\ response.confidence = 700
    /\ result["extraction_method"] = "ai"
    /\ result["claim_amount"] = Some(15000)

\* c has posted a request in a generate call that has not yet closed
HoldsSession(c) ==
    \/ calls[c].pc \in {"inflight", "closing"}
    \/ calls[c].pc = "start" /\ calls[c].attempts > 0

C24_HealthProbeGatesParser ==
    /\ probe # NoProbe =>
          /\ healthy \in {"true", "false"}
          /\ healthy = "true" <=> (probe.exc = "" /\ probe.status = 200)
    /\ ai_parser => healthy = "true"
    /\ ai_called => ai_parser

\* the endpoint answered 200 and main has used the AI parser on an email
C24_Witness ==
    /\ probe = [exc |-> "", status |-> 200]
    /\ healthy = "true"
    /\ ai_parser
    /\ ai_called
    /\ receipt_data # None
    /\ receipt_data[1].extraction_method = Some("ai")

\* the AI parser raised on the email main has just processed
ParserRaised == mpc # "start" /\ ai_called /\ exception # ""

\* C30: when the AI parser raises on an email, main catches the exception,
\* parses the email's text with the legacy parser, tags the result 'regex'
\* with confidence 0.6, keeps it if it holds a vendor, a total or a date,
\* and goes on with the emails that remain
C30_ParserErrorFallsBack ==
    /\ [](ParserRaised =>
            /\ receipt_data = Some(legacy_receipt(text, email_data))
            /\ receipt_data[1].extraction_method = Some("regex")
            /\ receipt_data[1].confidence = Some(600)
            /\ has_receipt(receipt_data[1]) =>
                  /\ receipts_data # <<>>
                  /\ receipts_data[Len(receipts_data)] = receipt_data[1])
    /\ [][mpc = "loop" /\ remaining > 0 /\ ai_called' /\ exception' # "" =>
            /\ mpc' = "loop"
            /\ remaining' = remaining - 1
            /\ Len(receipts_data') >= Len(receipts_data)]_vars

\* the model answered with a JSON array, the AI parser raised, and the
\* legacy parser's receipt for the email is in the list; an email remains
C30_Witness ==
    /\ ParserRaised
    /\ exception = "AttributeError"
    /\ text = <<"Total: $120.00">>
    /\ receipt_data[1].total = Some(12000)
    /\ receipts_data = <<receipt_data[1]>>
    /\ remaining = 1
    /\ mpc = "loop"

====
